---- MODULE Spec2Model ----
(***************************************************************************)
(* The two pre-commit hooks of jac-pre-commit, jac-check (hooks/jac_check) *)
(* and jac-format (hooks/jac_format), as one state machine.  A behaviour   *)
(* is one run of one hook over a command line: main walks sys.argv[1:],    *)
(* calls check_file / format_file for every argument ending in ".jac" and  *)
(* returns the exit status.  The jaclang library (JacProgram, JacParser,   *)
(* the passes of format_sched, read_file_with_encoding) and the file       *)
(* system are the environment: every call into them that the code makes    *)
(* may return any value of its type or raise.                              *)
(***************************************************************************)
EXTENDS Integers, Sequences, FiniteSets, TLC

VARIABLES
    hook,              \* which script runs: "check" or "format"
    argv,              \* sys.argv[1:]
    fs,                \* the files the command line names: path -> text, or Missing
    fs0,               \* history: the file system when the hook started
    pc,                \* position of main / format_file; "crashed": an exception left main
    i,                 \* index in argv of the argument the loop is at
    exit,              \* main's return value, -1 while main runs
    out,               \* what was printed, in order
    total_errors,      \* jac_check.main
    files_checked,     \* jac_check.main
    results,           \* jac_format.main: list[FormatResult]
    original_content,  \* format_file local
    errors_had,        \* prog.errors_had of the current format_file call
    current_mod,       \* format_file local: the IR handed from pass to pass
    k,                 \* format_file: index in format_sched of the next pass
    trace              \* history: one record per check_file / format_file call

vars == <<hook, argv, fs, fs0, pc, i, exit, out, total_errors, files_checked,
          results, original_content, errors_had, current_mod, k, trace>>

---------------------------------------------------------------------------
(* Bounds of the model *)

MaxArgs == 2
NumPasses == 2
MaxErrors == 2
MaxWarnings == 1

---------------------------------------------------------------------------
(* Values *)

SeqsUpTo(S, n) == UNION {[1..m -> S] : m \in 0..n}

\* Text is a sequence of characters; " " stands for any whitespace character.
\* The texts of the model: the empty text, a text of whitespace only, and two
\* different texts that are not blank, one of them with whitespace to strip.
Whitespace == {" "}
Contents == {<<>>, <<" ">>, <<"x">>, <<" ", "x">>}

None == <<"None">>         \* Python's None, as the value of current_mod.gen.jac
Missing == <<"Missing">>   \* no file at that path
NotRun == <<"NotRun">>     \* history: the call never reached current_mod.gen.jac
NoError == "none"          \* FormatResult.error is None

JacSuffix == <<".", "j", "a", "c">>
Names == { <<"a">> \o JacSuffix,
           <<"b">> \o JacSuffix,
           <<"a", ".", "t", "x", "t">> }

\* str.endswith
EndsWith(s, suffix) ==
    /\ Len(s) >= Len(suffix)
    /\ SubSeq(s, Len(s) - Len(suffix) + 1, Len(s)) = suffix

\* str.strip(): leading and trailing whitespace removed
RECURSIVE LStrip(_)
LStrip(s) == IF s # <<>> /\ Head(s) \in Whitespace THEN LStrip(Tail(s)) ELSE s
RECURSIVE RStrip(_)
RStrip(s) ==
    IF s # <<>> /\ s[Len(s)] \in Whitespace THEN RStrip(SubSeq(s, 1, Len(s) - 1)) ELSE s
Strip(s) == RStrip(LStrip(s))

\* the proper prefixes of a text: what a write that fails part-way leaves behind
ProperPrefixes(s) == {SubSeq(s, 1, n) : n \in 0..(Len(s) - 1)}

---------------------------------------------------------------------------
(* The decisions of the code, as operators *)

\* a main without the filter: every argument is handed on
IsJac_NoFilter(filepath) == TRUE

\* the filter of both mains: filepath.endswith(".jac")
IsJac(filepath) == EndsWith(filepath, JacSuffix)

\* main's first test: len(sys.argv) < 2
NoArguments(args) == Len(args) + 1 < 2

\* where control goes when a call inside the try block raises: the except
\* clause of check_file / format_file turns it into a result and main goes on
AfterRaise == "loop"

\* check_file counting the warnings as errors
CheckFileReturn_CountsWarnings(errors, warnings) == errors + warnings

\* check_file's return value when compile() returned
CheckFileReturn(errors, warnings) == errors

\* check_file's return value in the except clause
CheckFileRaised == 1

\* main failing only on more than one error
CheckExit_MoreThanOne(total, checked) == IF checked > 0 /\ total > 1 THEN 1 ELSE 0

\* jac_check.main's return value after the loop
CheckExit(total, checked) == IF checked > 0 /\ total > 0 THEN 1 ELSE 0

\* format_sched, the passes named by their position
format_sched == [n \in 1..NumPasses |-> n]

\* JacParser(root_ir=source, prog=prog).ir_out: the module parsed from the source
ParserOut(content) == [src |-> content, passes |-> <<>>]

\* every pass given the parser's output instead of the pass before it
PassInput_ParserOutput(parsed, current) == parsed

\* the IR a pass of the loop is given: ir_in=current_mod
PassInput(parsed, current) == current

\* pass_cls(ir_in=..., prog=prog).ir_out: the IR it was given, with this pass applied
PassOut(pass_cls, ir_in) == [ir_in EXCEPT !.passes = Append(@, pass_cls)]

\* the loop over format_sched goes on after a pass, whatever it recorded
NextPass(n, errs) == n + 1

\* "if prog.errors_had:"
HasErrors(errs) == errs # <<>>

\* "formatted_content is None or formatted_content.strip() == ''"
EmptyOutput(formatted) == formatted = None \/ Strip(formatted) = <<>>

\* the text format_file goes on with after the empty-output check, or the error
EmptyOutputIsError(formatted, original) ==
    EmptyOutput(formatted) /\ Strip(original) # <<>>
AfterEmptyCheck(formatted) == IF EmptyOutput(formatted) THEN <<>> ELSE formatted

\* "if formatted_content != original_content:"
NeedsWrite(formatted, original) == formatted # original

\* FormatResult.__init__
FormatResult(filepath, modified, error, warnings) ==
    [filepath |-> filepath, modified |-> modified, error |-> error,
     warnings |-> warnings]

\* the counts of jac_format.main's report loop
ErrorCount(rs) == Cardinality({j \in 1..Len(rs) : rs[j].error # NoError})
ModifiedCount(rs) ==
    Cardinality({j \in 1..Len(rs) : rs[j].error = NoError /\ rs[j].modified})

\* jac_format.main's return value
FormatExit(error_count, modified_count) ==
    IF error_count > 0 THEN 1
    ELSE IF modified_count > 0 THEN 1
    ELSE 0

---------------------------------------------------------------------------
(* Initial state *)

Init ==
    /\ hook \in {"check", "format"}
    /\ argv \in SeqsUpTo(Names, MaxArgs)
    /\ fs \in [{argv[n] : n \in 1..Len(argv)} -> Contents \cup {Missing}]
    /\ fs0 = fs
    /\ pc = "main"
    /\ i = 1
    /\ exit = -1
    /\ out = <<>>
    /\ total_errors = 0
    /\ files_checked = 0
    /\ results = <<>>
    /\ original_content = <<>>
    /\ errors_had = <<>>
    /\ current_mod = ParserOut(<<>>)
    /\ k = 1
    /\ trace = <<>>

---------------------------------------------------------------------------
(* jac_check *)

Msg(stream, text, n) == [stream |-> stream, text |-> text, n |-> n]

\* what check_file prints when compile() returned: the errors, or else the warnings
CheckFilePrints(errors, warnings) ==
    IF errors > 0 THEN <<Msg("stderr", "errors", errors)>>
    ELSE IF warnings > 0 /\ errors = 0 THEN <<Msg("stderr", "warnings", warnings)>>
    ELSE <<>>

\* main, up to the loop
CheckMain ==
    /\ hook = "check"
    /\ pc = "main"
    /\ IF NoArguments(argv)
       THEN /\ out' = Append(out, Msg("stderr", "usage", 0))
            /\ exit' = 0
            /\ pc' = "done"
       ELSE /\ pc' = "loop"
            /\ UNCHANGED <<out, exit>>
    /\ total_errors' = 0
    /\ files_checked' = 0
    /\ UNCHANGED <<hook, argv, fs, fs0, i, results, original_content, errors_had,
                   current_mod, k, trace>>

\* one turn of the loop over an argument that does not end in ".jac"
CheckSkip ==
    /\ hook = "check"
    /\ pc = "loop"
    /\ i <= Len(argv)
    /\ ~IsJac(argv[i])
    /\ i' = i + 1
    /\ UNCHANGED <<hook, argv, fs, fs0, pc, exit, out, total_errors, files_checked,
                   results, original_content, errors_had, current_mod, k, trace>>

\* one turn of the loop over a ".jac" argument: check_file, whose compile()
\* returns with some errors and warnings recorded
CheckFileReturns ==
    /\ hook = "check"
    /\ pc = "loop"
    /\ i <= Len(argv)
    /\ IsJac(argv[i])
    /\ \E errors \in 0..MaxErrors, warnings \in 0..MaxWarnings :
         LET ret == CheckFileReturn(errors, warnings) IN
         /\ out' = out \o CheckFilePrints(errors, warnings)
         /\ total_errors' = total_errors + ret
         /\ trace' = Append(trace, [path |-> argv[i], raised |-> FALSE,
                                    errors |-> errors, warnings |-> warnings,
                                    ret |-> ret])
    /\ files_checked' = files_checked + 1
    /\ i' = i + 1
    /\ UNCHANGED <<hook, argv, fs, fs0, pc, exit, results, original_content,
                   errors_had, current_mod, k>>

\* one turn of the loop over a ".jac" argument: check_file, whose JacProgram()
\* or compile() raises
CheckFileRaises ==
    /\ hook = "check"
    /\ pc = "loop"
    /\ i <= Len(argv)
    /\ IsJac(argv[i])
    /\ out' = Append(out, Msg("stderr", "error checking", 1))
    /\ total_errors' = total_errors + CheckFileRaised
    /\ trace' = Append(trace, [path |-> argv[i], raised |-> TRUE, errors |-> 0,
                               warnings |-> 0, ret |-> CheckFileRaised])
    /\ files_checked' = files_checked + 1
    /\ i' = i + 1
    /\ pc' = AfterRaise
    /\ UNCHANGED <<hook, argv, fs, fs0, exit, results, original_content,
                   errors_had, current_mod, k>>

\* main, after the loop
CheckDone ==
    /\ hook = "check"
    /\ pc = "loop"
    /\ i > Len(argv)
    /\ exit' = CheckExit(total_errors, files_checked)
    /\ out' = IF files_checked > 0
              THEN IF total_errors > 0
                   THEN Append(out, Msg("stderr", "failed", total_errors))
                   ELSE Append(out, Msg("stdout", "passed", files_checked))
              ELSE out
    /\ pc' = "done"
    /\ UNCHANGED <<hook, argv, fs, fs0, i, total_errors, files_checked, results,
                   original_content, errors_had, current_mod, k, trace>>

NextCheck ==
    \/ CheckMain
    \/ CheckSkip
    \/ CheckFileReturns
    \/ CheckFileRaises
    \/ CheckDone

---------------------------------------------------------------------------
(* jac_format *)

\* history record of one format_file call
Call(path, before, after, opened, raised, gen, formatted) ==
    [path |-> path,            \* the argument
     before |-> before,        \* the file when the call started
     after |-> after,          \* the file when the call returned
     opened |-> opened,        \* how often write_text opened the file for writing
     raised |-> raised,        \* the call that raised, or "none"
     ir |-> current_mod,       \* current_mod at the return
     gen |-> gen,              \* current_mod.gen.jac as the library gave it
     formatted |-> formatted]  \* formatted_content at the comparison

\* format_file returns `res` to main's loop, which appends it and goes on
FormatFileReturn(res, call, to) ==
    /\ results' = Append(results, res)
    /\ trace' = Append(trace, call)
    /\ i' = i + 1
    /\ pc' = to
    /\ original_content' = <<>>
    /\ errors_had' = <<>>
    /\ current_mod' = ParserOut(<<>>)
    /\ k' = 1

\* format_file's except clause: the call at `stage` raised
FormatFileRaised(stage, after, opened, gen, formatted) ==
    FormatFileReturn(FormatResult(argv[i], FALSE, "unexpected", 0),
                     Call(argv[i], fs[argv[i]], after, opened, stage, gen, formatted),
                     AfterRaise)

\* main, up to the loop
FormatMain ==
    /\ hook = "format"
    /\ pc = "main"
    /\ IF NoArguments(argv)
       THEN /\ out' = Append(out, Msg("stderr", "usage", 0))
            /\ exit' = 0
            /\ pc' = "done"
       ELSE /\ pc' = "loop"
            /\ UNCHANGED <<out, exit>>
    /\ results' = <<>>
    /\ UNCHANGED <<hook, argv, fs, fs0, i, total_errors, files_checked,
                   original_content, errors_had, current_mod, k, trace>>

\* one turn of the loop over an argument that does not end in ".jac"
FormatSkip ==
    /\ hook = "format"
    /\ pc = "loop"
    /\ i <= Len(argv)
    /\ ~IsJac(argv[i])
    /\ i' = i + 1
    /\ UNCHANGED <<hook, argv, fs, fs0, pc, exit, out, total_errors, files_checked,
                   results, original_content, errors_had, current_mod, k, trace>>

\* format_file: path.exists() raises.  Path.exists() returns False when stat
\* fails because nothing is there, and lets every other OSError of stat through
\* (a directory that may not be searched, a name that is too long).  The call
\* is before the try block: the exception leaves format_file and main, and the
\* interpreter ends with a traceback.
FormatFileExistsRaises ==
    /\ hook = "format"
    /\ pc = "loop"
    /\ i <= Len(argv)
    /\ IsJac(argv[i])
    /\ pc' = "crashed"
    /\ UNCHANGED <<hook, argv, fs, fs0, i, exit, out, total_errors, files_checked,
                   results, original_content, errors_had, current_mod, k, trace>>

\* format_file: "if not path.exists()"
FormatFileMissing ==
    /\ hook = "format"
    /\ pc = "loop"
    /\ i <= Len(argv)
    /\ IsJac(argv[i])
    /\ fs[argv[i]] = Missing
    /\ FormatFileReturn(FormatResult(argv[i], FALSE, "missing", 0),
                        Call(argv[i], Missing, Missing, 0, "none", NotRun, NotRun),
                        "loop")
    /\ UNCHANGED <<hook, argv, fs, fs0, exit, out, total_errors, files_checked>>

\* format_file: read_file_with_encoding returns the text of the file, or raises
FormatFileRead ==
    /\ hook = "format"
    /\ pc = "loop"
    /\ i <= Len(argv)
    /\ IsJac(argv[i])
    /\ fs[argv[i]] # Missing
    /\ \/ /\ original_content' = fs[argv[i]]
          /\ pc' = "parse"
          /\ UNCHANGED <<i, results, errors_had, current_mod, k, trace>>
       \/ FormatFileRaised("read", fs[argv[i]], 0, NotRun, NotRun)
    /\ UNCHANGED <<hook, argv, fs, fs0, exit, out, total_errors, files_checked>>

\* format_file: JacProgram(), uni.Source and JacParser, then the check for
\* parse errors.  The parser returns a module and records errors or none, or
\* one of the three calls raises.
FormatFileParse ==
    /\ hook = "format"
    /\ pc = "parse"
    /\ \/ \E recorded \in {<<>>, <<0>>} :
            IF HasErrors(recorded)
            THEN /\ FormatFileReturn(
                        FormatResult(argv[i], FALSE, "parse", 0),
                        [Call(argv[i], fs[argv[i]], fs[argv[i]], 0, "none", NotRun,
                              NotRun)
                           EXCEPT !.ir = ParserOut(original_content)],
                        "loop")
            ELSE /\ errors_had' = recorded
                 /\ current_mod' = ParserOut(original_content)
                 /\ k' = 1
                 /\ pc' = "passes"
                 /\ UNCHANGED <<i, results, original_content, trace>>
       \/ FormatFileRaised("parse", fs[argv[i]], 0, NotRun, NotRun)
    /\ UNCHANGED <<hook, argv, fs, fs0, exit, out, total_errors, files_checked>>

\* format_file: one turn of "for pass_cls in format_sched".  The pass returns
\* its output and records an error or none, or it raises.
FormatFilePass ==
    /\ hook = "format"
    /\ pc = "passes"
    /\ k <= NumPasses
    /\ \/ \E recorded \in {<<>>, <<format_sched[k]>>} :
            /\ current_mod' = PassOut(format_sched[k],
                                      PassInput(ParserOut(original_content),
                                                current_mod))
            /\ errors_had' = errors_had \o recorded
            /\ k' = NextPass(k, errors_had')
            /\ UNCHANGED <<pc, i, results, original_content, trace>>
       \/ FormatFileRaised("pass", fs[argv[i]], 0, NotRun, NotRun)
    /\ UNCHANGED <<hook, argv, fs, fs0, exit, out, total_errors, files_checked>>

\* format_file after the loop: errors were recorded by the passes
FormatFileFormatErrors ==
    /\ hook = "format"
    /\ pc = "passes"
    /\ k > NumPasses
    /\ HasErrors(errors_had)
    /\ FormatFileReturn(FormatResult(argv[i], FALSE, "format", 0),
                        Call(argv[i], fs[argv[i]], fs[argv[i]], 0, "none", NotRun,
                             NotRun),
                        "loop")
    /\ UNCHANGED <<hook, argv, fs, fs0, exit, out, total_errors, files_checked>>

\* path.write_text(data): the file is opened for writing, which truncates it,
\* the text is written and the file closed.  It raises when the file cannot be
\* opened (the file is as it was) or when the write fails after the open (the
\* file holds a part of the text, or nothing).
WriteTextOutcomes(old, data) ==
    {[ok |-> TRUE, file |-> data]}
        \cup {[ok |-> FALSE, file |-> old]}
        \cup {[ok |-> FALSE, file |-> part] : part \in ProperPrefixes(data)}

\* format_file after the loop, no error recorded: current_mod.gen.jac, the
\* empty-output check, the warnings, the comparison and the write
FormatFileFinish ==
    /\ hook = "format"
    /\ pc = "passes"
    /\ k > NumPasses
    /\ ~HasErrors(errors_had)
    /\ LET path == argv[i]
           before == fs[argv[i]]
       IN
       \/ /\ FormatFileRaised("gen", before, 0, NotRun, NotRun)
          /\ fs' = fs
       \/ \E gen \in Contents \cup {None}, warnings \in 0..MaxWarnings :
            LET formatted == AfterEmptyCheck(gen) IN
            IF EmptyOutputIsError(gen, original_content)
            THEN /\ FormatFileReturn(FormatResult(path, FALSE, "empty", 0),
                                     Call(path, before, before, 0, "none", gen, NotRun),
                                     "loop")
                 /\ fs' = fs
            ELSE IF NeedsWrite(formatted, original_content)
            THEN \E w \in WriteTextOutcomes(before, formatted) :
                   /\ fs' = [fs EXCEPT ![path] = w.file]
                   /\ IF w.ok
                      THEN FormatFileReturn(
                               FormatResult(path, TRUE, NoError, warnings),
                               Call(path, before, w.file, 1, "none", gen, formatted),
                               "loop")
                      ELSE FormatFileRaised("write", w.file, 1, gen, formatted)
            ELSE /\ FormatFileReturn(
                        FormatResult(path, FALSE, NoError, warnings),
                        Call(path, before, before, 0, "none", gen, formatted),
                        "loop")
                 /\ fs' = fs
    /\ UNCHANGED <<hook, argv, fs0, exit, out, total_errors, files_checked>>

\* what main's report loop prints for one result
ReportLines(r) ==
    IF r.error # NoError THEN <<Msg("stderr", "error", 1)>>
    ELSE IF r.modified
    THEN <<Msg("stdout", "formatted", 1)>>
             \o (IF r.warnings > 0 THEN <<Msg("stderr", "warnings", r.warnings)>>
                 ELSE <<>>)
    ELSE <<>>

RECURSIVE Report(_)
Report(rs) == IF rs = <<>> THEN <<>> ELSE ReportLines(Head(rs)) \o Report(Tail(rs))

\* main, after the loop: the report, the summary and the return value
FormatDone ==
    /\ hook = "format"
    /\ pc = "loop"
    /\ i > Len(argv)
    /\ LET error_count == ErrorCount(results)
           modified_count == ModifiedCount(results)
       IN
       /\ exit' = FormatExit(error_count, modified_count)
       /\ out' = out \o Report(results)
                     \o (IF error_count > 0
                         THEN <<Msg("stderr", "failed", error_count)>>
                         ELSE IF modified_count > 0
                         THEN <<Msg("stdout", "summary", modified_count)>>
                         ELSE <<>>)
    /\ pc' = "done"
    /\ UNCHANGED <<hook, argv, fs, fs0, i, total_errors, files_checked, results,
                   original_content, errors_had, current_mod, k, trace>>

NextFormat ==
    \/ FormatMain
    \/ FormatSkip
    \/ FormatFileExistsRaises
    \/ FormatFileMissing
    \/ FormatFileRead
    \/ FormatFileParse
    \/ FormatFilePass
    \/ FormatFileFormatErrors
    \/ FormatFileFinish
    \/ FormatDone

Next == NextCheck \/ NextFormat

Spec == Init /\ [][Next]_vars

---------------------------------------------------------------------------
(* Vocabulary of the properties *)

\* the sum of a sequence of numbers
RECURSIVE SumSeq(_)
SumSeq(s) == IF s = <<>> THEN 0 ELSE Head(s) + SumSeq(Tail(s))

\* the argument names a Jac file: its last four characters are ".jac"
HasJacExtension(path) ==
    /\ Len(path) >= 4
    /\ path[Len(path) - 3] = "."
    /\ path[Len(path) - 2] = "j"
    /\ path[Len(path) - 1] = "a"
    /\ path[Len(path)] = "c"

\* the ".jac" arguments among the first n, in argument order
JacArgs(n) == SelectSeq(SubSeq(argv, 1, n), HasJacExtension)

\* the arguments of the calls made so far, in call order
Paths == [j \in 1..Len(trace) |-> trace[j].path]

Calls == 1..Len(trace)
CallsOn(path) == {j \in Calls : trace[j].path = path}
Latest(S) == CHOOSE j \in S : \A m \in S : m <= j

\* the calls on the same file before call j
EarlierOn(j) == {m \in CallsOn(trace[j].path) : m < j}

\* call m is the next call on the same file after call j
NextOnSameFile(j, m) == m \in Calls /\ EarlierOn(m) # {} /\ Latest(EarlierOn(m)) = j

\* between calls (and at the end) main has returned from every call it made
BetweenCalls == pc \in {"main", "loop", "done"}

\* the loop is over
LoopOver == pc = "done" /\ argv # <<>>

---------------------------------------------------------------------------
(* C1 *)

\* C1: every format_file call that returns a result with error set leaves the
\* file on disk as it was when the call started.
C1_ErrorLeavesFileUntouched ==
    hook = "format" =>
        \A j \in Calls :
            results[j].error # NoError => trace[j].after = trace[j].before

\* C1, the failing case: write_text raised after it had opened the file, the
\* except clause returned an error result, and the file is not what it was
C1_FailedWriteChangedFile ==
    /\ hook = "format"
    /\ \E j \in Calls :
         /\ results[j].error = "unexpected"
         /\ trace[j].raised = "write"
         /\ trace[j].after # trace[j].before

---------------------------------------------------------------------------
(* C2 *)

\* C2: format_file writes the file at most once per call; when the result has
\* modified=false the file was not written, and when it has modified=true the
\* file holds the formatted content, which differs from the original.
C2_WrittenExactlyWhenModified ==
    hook = "format" =>
        \A j \in Calls :
            /\ trace[j].opened <= 1
            /\ ~results[j].modified =>
                   trace[j].opened = 0 /\ trace[j].after = trace[j].before
            /\ results[j].modified =>
                   /\ trace[j].after = trace[j].formatted
                   /\ trace[j].formatted # trace[j].before

\* C2, the failing case: a result with modified=false for a file that
\* write_text opened and left changed
C2_UnmodifiedResultWrittenFile ==
    /\ hook = "format"
    /\ \E j \in Calls :
         /\ ~results[j].modified
         /\ trace[j].opened = 1
         /\ trace[j].after # trace[j].before

---------------------------------------------------------------------------
(* C3 *)

\* C3: when the formatter's output for a file equals the file's content and no
\* error was recorded, format_file returns modified=false and does not write
\* the file, whatever the content, empty and whitespace-only included.
C3_CanonicalFileUnmodified ==
    hook = "format" =>
        \A j \in Calls :
            trace[j].gen = trace[j].before =>
                /\ ~results[j].modified
                /\ trace[j].opened = 0
                /\ trace[j].after = trace[j].before

\* C3, the failing case: a whitespace-only file the formatter leaves as it is
\* was rewritten as the empty file and reported as modified
C3_BlankFileRewritten ==
    /\ hook = "format"
    /\ \E j \in Calls :
         /\ trace[j].gen = trace[j].before
         /\ trace[j].before # <<>>
         /\ results[j].modified
         /\ trace[j].after = <<>>

---------------------------------------------------------------------------
(* C6 *)

\* C6: jac-format's exit status is 1 exactly when at least one processed file
\* ended with an error result; a run without errors returns 0 even when files
\* were rewritten.
C6_ExitOneOnlyOnErrors ==
    (hook = "format" /\ pc = "done") =>
        (exit = 1 <=> \E j \in 1..Len(results) : results[j].error # NoError)

\* C6, the failing case: no error result, a file rewritten, exit status 1
C6_ModifiedExitsOne ==
    /\ hook = "format"
    /\ pc = "done"
    /\ exit = 1
    /\ \A j \in 1..Len(results) : results[j].error = NoError
    /\ \E j \in 1..Len(results) : results[j].modified

---------------------------------------------------------------------------
(* C5 *)

\* the error count a check_file call stands for: the compiler's errors, or one
\* for an exception during the check
ErrorsOf(call) == IF call.raised THEN 1 ELSE call.errors

\* C5: jac-check's exit status is 1 exactly when at least one ".jac" argument
\* produced a non-zero error count (compiler errors, or an exception, which
\* counts as one error) and 0 otherwise; the total it reports is the sum of
\* the per-file error counts.
C5_CheckExitStatus ==
    (hook = "check" /\ pc = "done") =>
        /\ Paths = JacArgs(Len(argv))
        /\ exit = 1 <=> \E j \in Calls : ErrorsOf(trace[j]) > 0
        /\ exit = 0 <=> \A j \in Calls : ErrorsOf(trace[j]) = 0
        /\ total_errors = SumSeq([j \in Calls |-> ErrorsOf(trace[j])])
        /\ exit = 1 =>
               out[Len(out)] = Msg("stderr", "failed",
                                   SumSeq([j \in Calls |-> ErrorsOf(trace[j])]))

\* C5, its case: two files checked, one clean and one whose check raised
C5_Witness ==
    /\ hook = "check"
    /\ pc = "done"
    /\ exit = 1
    /\ total_errors = 1
    /\ \E j \in Calls : trace[j].raised
    /\ \E j \in Calls : ~trace[j].raised /\ trace[j].errors = 0

---------------------------------------------------------------------------
(* C4 *)

\* the file at `path` as the calls made so far left it
AsLeft(path) ==
    IF hook = "format" /\ CallsOn(path) # {}
    THEN trace[Latest(CallsOn(path))].after
    ELSE fs0[path]

\* the file when call j started is the file as the calls before j left it
StartedFrom(j) ==
    IF EarlierOn(j) # {} THEN trace[Latest(EarlierOn(j))].after
    ELSE fs0[trace[j].path]

\* C4: in both hooks main processes every argument ending in ".jac" exactly
\* once, in argument order; an error result or an exception in one file never
\* escapes check_file / format_file, never stops later files from being
\* processed and never undoes what was written to earlier files; main always
\* ends by returning 0 or 1.
C4_EveryJacArgumentProcessed ==
    /\ pc \in {"main", "loop", "parse", "passes", "done"}
    /\ pc # "done" => (exit = -1 /\ ENABLED Next)
    /\ pc = "done" => exit \in {0, 1}
    /\ pc \in {"loop", "parse", "passes"} => Paths = JacArgs(i - 1)
    /\ pc \in {"parse", "passes"} => i <= Len(argv) /\ HasJacExtension(argv[i])
    /\ LoopOver => Paths = JacArgs(Len(argv))
    /\ hook = "check" => files_checked = Len(trace)
    /\ hook = "format" =>
           /\ Len(results) = Len(trace)
           /\ \A j \in Calls :
                /\ results[j].filepath = trace[j].path
                /\ trace[j].before = StartedFrom(j)
    /\ \A path \in DOMAIN fs : fs[path] = AsLeft(path)

\* C4, the failing case: path.exists() raised in format_file, outside the try
\* block, and main ended there with arguments left unprocessed
C4_ExceptionLeftMain ==
    /\ hook = "format"
    /\ pc = "crashed"
    /\ i < Len(argv)
    /\ HasJacExtension(argv[i + 1])
    /\ exit = -1

---------------------------------------------------------------------------
(* C7 *)

\* C7: warnings never block formatting or reported success.  In jac-check a
\* file with warnings and no errors adds 0 to the error total and cannot make
\* the exit status non-zero.  In jac-format warnings never produce an error
\* result, never keep the formatted content from being written and never
\* change the exit status.
C7_WarningsNeverBlock ==
    /\ hook = "check" =>
           /\ \A j \in Calls :
                (~trace[j].raised /\ trace[j].errors = 0) => trace[j].ret = 0
           /\ (pc = "done" /\ \A j \in Calls :
                                  ~trace[j].raised /\ trace[j].errors = 0)
                  => exit = 0
    /\ hook = "format" =>
           /\ \A j \in Calls :
                /\ results[j].warnings > 0 => results[j].error = NoError
                /\ (trace[j].formatted # NotRun /\ trace[j].raised = "none") =>
                       /\ results[j].error = NoError
                       /\ trace[j].after = trace[j].formatted
                       /\ results[j].modified <=>
                              trace[j].formatted # trace[j].before
           /\ pc = "done" =>
                  (exit = 1 <=> \E j \in Calls :
                                    results[j].error # NoError \/ results[j].modified)

\* C7, its case: jac-format met warnings in a file it rewrote and in a file
\* it had nothing to change in; both results are without error and the first
\* file holds the formatted text
C7_Witness ==
    /\ hook = "format"
    /\ pc = "done"
    /\ \E j \in Calls :
         /\ results[j].warnings > 0
         /\ results[j].modified
         /\ fs[trace[j].path] = trace[j].formatted
         /\ trace[j].formatted # trace[j].before
    /\ \E j \in Calls :
         /\ results[j].warnings > 0
         /\ ~results[j].modified
         /\ results[j].error = NoError

---------------------------------------------------------------------------
(* C9 *)

\* the schedule up to, and not including, position n
Scheduled(n) == SubSeq(format_sched, 1, n - 1)

\* C9: when parsing records no error the passes of format_sched run one after
\* another in schedule order, each given the output of the one before it (the
\* first the parser's output); every pass runs even if an earlier one recorded
\* an error, the error list is looked at only after the last pass, and the
\* formatted text comes from the last pass's output.  When parsing records an
\* error no pass runs.
C9_PassesRunInOrder ==
    hook = "format" =>
        /\ pc = "passes" =>
               /\ k \in 1..(NumPasses + 1)
               /\ current_mod = [src |-> fs[argv[i]], passes |-> Scheduled(k)]
               /\ \A n \in 1..Len(errors_had) : errors_had[n] \in 1..(k - 1)
        /\ \A j \in Calls :
               /\ results[j].error = "parse" =>
                      trace[j].ir = [src |-> trace[j].before, passes |-> <<>>]
               /\ results[j].error = "format" =>
                      trace[j].ir = [src |-> trace[j].before,
                                     passes |-> format_sched]
               /\ trace[j].gen # NotRun =>
                      trace[j].ir = [src |-> trace[j].before,
                                     passes |-> format_sched]
               /\ trace[j].raised = "pass" =>
                      \E n \in 1..NumPasses :
                          trace[j].ir = [src |-> trace[j].before,
                                         passes |-> Scheduled(n)]

\* C9, its case: the first pass recorded an error and every pass of the
\* schedule has run all the same, each on the output of the one before it
C9_Witness ==
    /\ hook = "format"
    /\ pc = "passes"
    /\ k = NumPasses + 1
    /\ errors_had # <<>>
    /\ Head(errors_had) = format_sched[1]
    /\ current_mod.passes = format_sched

---------------------------------------------------------------------------
(* C10 *)

\* C10: an argument that does not end in ".jac" is never passed to check_file
\* or format_file: such a file is never read, compiled or written and adds
\* nothing to the error count, the files-checked count, the modified count
\* or the exit status; a run whose arguments are all non-.jac, or a run with
\* no arguments, returns 0 in both hooks.
C10_OnlyJacFilesTouched ==
    /\ \A j \in Calls : HasJacExtension(trace[j].path)
    /\ \A path \in DOMAIN fs : ~HasJacExtension(path) => fs[path] = fs0[path]
    /\ pc \in {"parse", "passes"} => HasJacExtension(argv[i])
    /\ pc \in {"loop", "done"} =>
           /\ hook = "check" => files_checked = Len(JacArgs(i - 1))
           /\ hook = "format" => Len(results) = Len(JacArgs(i - 1))
    /\ (pc = "done" /\ JacArgs(Len(argv)) = <<>>) =>
           /\ exit = 0
           /\ trace = <<>>
           /\ fs = fs0
           /\ total_errors = 0
           /\ files_checked = 0
           /\ results = <<>>

\* C10, its case: a run over two existing files that are not ".jac" files
C10_Witness ==
    /\ pc = "done"
    /\ Len(argv) = 2
    /\ \A n \in 1..Len(argv) : ~HasJacExtension(argv[n]) /\ fs[argv[n]] # Missing
    /\ exit = 0

---------------------------------------------------------------------------
(* C8 *)

\* what the library did in call j: the library call that raised, the kind of
\* errors recorded, and the formatter's output
LibraryDid(j) ==
    << IF trace[j].raised = "write" THEN "none" ELSE trace[j].raised,
       IF results[j].error \in {"parse", "format"} THEN results[j].error ELSE "none",
       trace[j].gen >>

\* the assumption of C8, as far as the run shows the library: the library does
\* the same on the same text, the formatter run on a text it produced produces
\* that text again, and no library call failed on a file already formatted
\* without error
PipelineIdempotent ==
    /\ \A a, b \in Calls :
         (trace[a].before = trace[b].before /\ trace[a].before # Missing) =>
             LibraryDid(a) = LibraryDid(b)
    /\ \A a, b \in Calls :
         (trace[a].gen \in Contents /\ trace[b].before = trace[a].gen) =>
             LibraryDid(b) = <<"none", "none", trace[a].gen>>
    /\ \A a, b \in Calls :
         (NextOnSameFile(a, b) /\ results[a].error = NoError) =>
             (LibraryDid(b)[1] = "none" /\ LibraryDid(b)[2] = "none")

\* C8: with an idempotent formatter and nothing else touching the file, after
\* a format_file call that ended without error, the next format_file call on
\* the same file returns modified=false with no error and does not write.
C8_SecondFormatIsNoOp ==
    (hook = "format" /\ PipelineIdempotent) =>
        \A j, m \in Calls :
            (NextOnSameFile(j, m) /\ results[j].error = NoError) =>
                /\ results[m].error = NoError
                /\ ~results[m].modified
                /\ trace[m].opened = 0

\* C8, the failing case: a whitespace-only file was rewritten as the empty
\* file, which the formatter never produced, and the next call on it wrote again
C8_SecondFormatWrote ==
    /\ hook = "format"
    /\ PipelineIdempotent
    /\ \E j, m \in Calls :
         /\ NextOnSameFile(j, m)
         /\ results[j].error = NoError
         /\ trace[j].before # <<>>
         /\ trace[j].after = <<>>
         /\ trace[m].opened = 1

====
